---- MODULE Spec2Model ----
(***************************************************************************)
(* Review-edit loop of the paper generator: the reviewer, the editor, the  *)
(* draft and feedback records they work on, and the orchestrator that      *)
(* drives them (src/src/agents/reviewer.py, src/src/agents/editor.py,      *)
(* src/src/models/paper.py, src/src/models/review.py,                      *)
(* src/src/orchestrator.py).                                               *)
(***************************************************************************)
EXTENDS Integers, Sequences, FiniteSets, TLC

VARIABLES
    draft,            \* the PaperDraft under revision, or None
    feedback,         \* the ReviewFeedback last produced, or None
    min_cycles,       \* config.paper.min_review_cycles
    max_cycles,       \* config.paper.max_review_cycles
    pc,               \* position of generate_paper ("api" outside a pipeline run)
    cycle,            \* WorkflowState.review_cycle
    current_stage,    \* WorkflowState.current_stage
    status,           \* ResearchSession.status
    error,            \* WorkflowState.error
    last_error,       \* ResearchSession.last_error
    loop_state,       \* how the review-edit loop was left: "converged" (break) or "exhausted"
    warned,           \* the logger.warning after the loop was emitted
    reviews,          \* history: the cycle numbers handed to the reviewer, in call order
    edits,            \* history: number of apply_all_fixes calls made by the loop
    reviewed,         \* history: draft and feedback as the last review returned them
    last_op,          \* history: the operation that ran last and how it ended
    rewrites,         \* history: the rewrite requests of the last editor operation
    fixes_done,       \* history: number of completed apply_all_fixes calls
    version0,         \* history: draft.version when the draft was handed over
    fb_seq,           \* history: number of ReviewFeedback objects created so far
    nops,             \* history: number of agent operations invoked directly
    attempts,         \* history: times the language-model call that failed the loop was tried
    raised,           \* history: the exception generate_paper caught, or NoExc
    sources,          \* the records handed to _deduplicate_sources
    unique,           \* the list _deduplicate_sources returned
    response,         \* the response of the language model handed to a parser
    parsed,           \* the issues the parser made of the response
    retry,            \* what retry_async was called with, and what each attempt does
    retried,          \* what retry_async did: invocations, sleeps, how it ended
    ieee,             \* the IEEEFormatter class, its instances and the numbers they gave
    record,           \* the stored record handed to from_dict
    loaded            \* what from_dict made of the record

vars == <<draft, feedback, min_cycles, max_cycles, pc, cycle, current_stage, status,
          error, last_error, loop_state, warned, reviews, edits, reviewed, last_op,
          rewrites, fixes_done, version0, fb_seq, nops, attempts, raised,
          sources, unique, response, parsed,
          retry, retried, ieee, record, loaded>>

\* the variables of the source finder
finder_vars == <<sources, unique>>

\* the variables of the reviewer's parsers
parser_vars == <<response, parsed>>

\* the variables of retry_async
retry_vars == <<retry, retried>>

\* the variable of the IEEE citation formatter
formatter_vars == <<ieee>>

\* the variables of the from_dict loaders
loader_vars == <<record, loaded>>

\* the variables of the operations modelled on their own
unit_vars == <<parser_vars, retry_vars, formatter_vars, loader_vars>>

-----------------------------------------------------------------------------
(* Bounds of the model *)

MaxTextLen == 1        \* longest section text
MaxOps == 3            \* agent operations invoked in one run of SpecAgent
MaxCycleArg == 2       \* largest cycle number handed to review directly
MaxConfigCycles == 3   \* largest configured max_review_cycles
MaxGroup == 4          \* longest issue list of SpecOrder

-----------------------------------------------------------------------------
(* Data *)

None == [none |-> TRUE]

\* no response was handed to a parser
ParserIdle == response = <<>> /\ parsed = <<>>

\* retry_async was not called
RetryIdle == retry = None /\ retried = None

\* no IEEEFormatter was used
FormatterIdle == ieee = None

\* from_dict was not called
LoaderIdle == record = None /\ loaded = None

\* the operations modelled on their own have not run
InitUnit == ParserIdle /\ RetryIdle /\ FormatterIdle /\ LoaderIdle

\* models/paper.py SectionType
SectionType ==
    {"abstract", "introduction", "literature_review", "theoretical_framework",
     "methodology", "analysis", "discussion", "conclusion", "references"}

\* iteration order of `for section_type in SectionType`
SectionOrder ==
    <<"abstract", "introduction", "literature_review", "theoretical_framework",
      "methodology", "analysis", "discussion", "conclusion", "references">>

\* models/review.py IssueSeverity
IssueSeverity == {"critical", "major", "minor"}

\* models/review.py IssueType
IssueType ==
    {"missing_citation", "inconsistency", "vague_claim", "format_error",
     "style_issue", "grammar_error", "logic_error", "incomplete_argument"}

\* A text is a sequence of characters; " " is whitespace.
Chars == {"a"}

Texts == UNION {[1..n -> Chars] : n \in 0..MaxTextLen}

\* Exceptions a language-model call can raise: ValueError (e.g. "No LLM provider
\* configured", a response without text) or any other type; the message may be empty.
Exceptions == [type : {"ValueError", "RuntimeError"}, msg : {"", "m"}]

\* len(content.split())
RECURSIVE WordsFrom(_, _, _)
WordsFrom(t, i, inword) ==
    IF i > Len(t) THEN 0
    ELSE IF t[i] = " " THEN WordsFrom(t, i + 1, FALSE)
    ELSE (IF inword THEN 0 ELSE 1) + WordsFrom(t, i + 1, TRUE)

\* (variant: words counted by len(content.split(" ")))
WordCountBySingleSpace(t) == Cardinality({i \in 1..Len(t) : t[i] = " "}) + 1

WordCount(t) == WordsFrom(t, 1, FALSE)

RECURSIVE SumWords(_, _)
SumWords(secs, k) ==
    IF k > Len(SectionOrder) THEN 0
    ELSE WordCount(secs[SectionOrder[k]]) + SumWords(secs, k + 1)

\* PaperDraft._update_word_count
UpdateWordCount(secs) == SumWords(secs, 1)

\* PaperDraft.get_section
GetSection(d, s) == d.sections[s]

\* PaperDraft.set_section
SetSection(d, s, content) ==
    [d EXCEPT !.sections = [@ EXCEPT ![s] = content],
              !.word_count = UpdateWordCount([d.sections EXCEPT ![s] = content])]

\* PaperDraft() as the dataclass defaults build it
NewDraft ==
    [sections |-> [s \in SectionType |-> <<>>], version |-> 1, word_count |-> 0,
     review_cycle |-> 0, status |-> "draft"]

-----------------------------------------------------------------------------
(* Reviewer: src/src/agents/reviewer.py *)

\* A response of the language model is a sequence of lines; a line is its leading
\* field marker (m, "" when it starts with none), the marker's value (v) and, for a
\* LOCATION line, the excerpt it quotes (x).
Line(m, v, x) == [m |-> m, v |-> v, x |-> x]

FieldKey(m) ==
    CASE m = "SEVERITY:" -> "severity"
      [] m = "LOCATION:" -> "location"
      [] m = "DESCRIPTION:" -> "description"
      [] m = "SUGGESTION:" -> "suggestion"

\* current_issue = {} and current_issue = {"category": ...}
EmptyDict == [keys |-> {}, category |-> "", severity |-> "", location |-> <<>>]

CategoryDict(category) == [EmptyDict EXCEPT !.keys = {"category"}, !.category = category]

\* current_issue[key] = value
DictSet(d, m, line) ==
    [d EXCEPT !.keys = @ \cup {FieldKey(m)},
              !.severity = IF m = "SEVERITY:" THEN line.v ELSE @,
              !.location = IF m = "LOCATION:" THEN line.x ELSE @]

\* category_map.get(data.get("category", ""), IssueType.VAGUE_CLAIM)
CategoryMap(d) ==
    LET c == IF "category" \in d.keys THEN d.category ELSE ""
    IN CASE c = "MISSING_CITATION" -> "missing_citation"
         [] c = "INCONSISTENCY" -> "inconsistency"
         [] c = "VAGUE_CLAIM" -> "vague_claim"
         [] c = "FORMAT_ERROR" -> "format_error"
         [] c = "STYLE_ISSUE" -> "style_issue"
         [] c = "GRAMMAR_ERROR" -> "grammar_error"
         [] c = "LOGIC_ERROR" -> "logic_error"
         [] c = "INCOMPLETE_ARGUMENT" -> "incomplete_argument"
         [] OTHER -> "vague_claim"

\* severity_map.get(data.get("severity", "MINOR"), IssueSeverity.MINOR)
SeverityMap(d) ==
    LET v == IF "severity" \in d.keys THEN d.severity ELSE "MINOR"
    IN CASE v = "CRITICAL" -> "critical"
         [] v = "MAJOR" -> "major"
         [] OTHER -> "minor"

\* ReviewIssue(...): resolved defaults to False; id stands for the issue's uuid
\* and is its position in the feedback's list (assigned by Renumber).
Issue(type, severity, section, excerpt) ==
    [id |-> 0, issue_type |-> type, severity |-> severity, section |-> section,
     text_excerpt |-> excerpt, resolved |-> FALSE]

\* ReviewerAgent._create_issue
CreateIssue(d, section_type) ==
    Issue(CategoryMap(d), SeverityMap(d), section_type,
          IF "location" \in d.keys THEN d.location ELSE <<>>)

\* the loop over response.split("\n") of _review_section, and the flush after it
RECURSIVE ParseLines(_, _, _, _, _)
ParseLines(resp, i, cur, issues, st) ==
    LET flushed == IF cur.keys # {} THEN Append(issues, CreateIssue(cur, st)) ELSE issues
    IN IF i > Len(resp) THEN flushed
       ELSE IF resp[i].m = "ISSUE:"
            THEN ParseLines(resp, i + 1, CategoryDict(resp[i].v), flushed, st)
       ELSE IF resp[i].m \in {"SEVERITY:", "LOCATION:", "DESCRIPTION:", "SUGGESTION:"}
            THEN ParseLines(resp, i + 1, DictSet(cur, resp[i].m, resp[i]), issues, st)
       ELSE ParseLines(resp, i + 1, cur, issues, st)

\* ReviewerAgent._review_section, after the response arrived
ReviewSection(section_type, resp) ==
    IF \E i \in 1..Len(resp) : resp[i].m = "NO_ISSUES" THEN <<>>
    ELSE ParseLines(resp, 1, EmptyDict, <<>>, section_type)

\* (variant: one issue for a response, however many findings it lists)
RECURSIVE CheckConsistencyOnce(_, _)
CheckConsistencyOnce(resp, i) ==
    IF i > Len(resp) THEN <<>>
    ELSE IF resp[i].m = "INCONSISTENCY:"
         THEN <<Issue("inconsistency", "major", "cross-section", <<>>)>>
         ELSE CheckConsistencyOnce(resp, i + 1)

\* ReviewerAgent._check_consistency, after the response arrived
RECURSIVE CheckConsistency(_, _)
CheckConsistency(resp, i) ==
    IF i > Len(resp) THEN <<>>
    ELSE (IF resp[i].m = "INCONSISTENCY:"
          THEN <<Issue("inconsistency", "major", "cross-section", <<>>)>>
          ELSE <<>>) \o CheckConsistency(resp, i + 1)

\* the loop `for section_type in SectionType` of _review
RECURSIVE ReviewSections(_, _, _)
ReviewSections(d, resps, k) ==
    IF k > Len(SectionOrder) THEN <<>>
    ELSE (IF GetSection(d, SectionOrder[k]) # <<>>
          THEN ReviewSection(SectionOrder[k], resps[SectionOrder[k]])
          ELSE <<>>) \o ReviewSections(d, resps, k + 1)

Renumber(issues) == [i \in 1..Len(issues) |-> [issues[i] EXCEPT !.id = i]]

\* (variant: a major issue does not block)
BlockingCriticalOnly(i) == i.severity = "critical" /\ ~i.resolved

\* `i.severity in [CRITICAL, MAJOR] and not i.resolved`
Blocking(i) == i.severity \in {"critical", "major"} /\ ~i.resolved

\* (variant: without the first-cycle rule)
ApprovalAtAnyCycle(c, issues) == \A i \in 1..Len(issues) : ~Blocking(issues[i])

\* "Determine approval (NEVER on first cycle)" of _review
Approval(c, issues) ==
    IF c < 2 THEN FALSE
    ELSE \A i \in 1..Len(issues) : ~Blocking(issues[i])

\* ReviewerAgent._review when every language-model call returns: the feedback
NewFeedback(fid, d, c, resps, cross) ==
    LET issues == Renumber(ReviewSections(d, resps, 1) \o CheckConsistency(cross, 1))
    IN [id |-> fid, cycle |-> c, issues |-> issues, approved |-> Approval(c, issues)]

\* (variant: the review also counts as a new version of the draft)
ReviewedVersioned(d, c) == [d EXCEPT !.review_cycle = c, !.version = @ + 1]

\* draft.review_cycle = cycle
Reviewed(d, c) == [d EXCEPT !.review_cycle = c]

\* ReviewFeedback.has_critical_issues
HasCriticalIssues(fb) ==
    \E i \in 1..Len(fb.issues) : fb.issues[i].severity = "critical" /\ ~fb.issues[i].resolved

\* (variant: the final review approves without looking at the cycle)
FinalApprovalAnyCycle(fb, c) ==
    IF ~HasCriticalIssues(fb) THEN [fb EXCEPT !.approved = TRUE] ELSE fb

\* ReviewerAgent._final_review, applied to the feedback _review returned
FinalApproval(fb, c) ==
    IF ~HasCriticalIssues(fb) /\ c >= 2 THEN [fb EXCEPT !.approved = TRUE] ELSE fb

\* (variant: the excerpt is looked for at the start of the content only)
StartsWith(t, x) == Len(x) <= Len(t) /\ \A j \in 1..Len(x) : t[j] = x[j]

\* excerpt in section_content
Contains(t, x) ==
    \E k \in 0..(Len(t) - Len(x)) : \A j \in 1..Len(x) : t[k + j] = x[j]

\* (variant: the flag is recomputed instead of only being set)
RecomputedFlag(d, i) ==
    LET content == IF i.section \in SectionType THEN GetSection(d, i.section) ELSE <<>>
    IN i.text_excerpt # <<>> /\ ~Contains(content, i.text_excerpt)

\* ReviewerAgent._check_resolved_issues: the flag of one issue afterwards
CheckedFlag(d, i) ==
    LET content == IF i.section \in SectionType THEN GetSection(d, i.section) ELSE <<>>
    IN IF i.text_excerpt # <<>> /\ ~Contains(content, i.text_excerpt) THEN TRUE
       ELSE i.resolved

CheckResolvedIssues(d, fb) ==
    [fb EXCEPT !.issues = [i \in 1..Len(fb.issues) |->
                              [fb.issues[i] EXCEPT !.resolved = CheckedFlag(d, fb.issues[i])]]]

(* Responses the reviewer's calls are given in the model *)
SectionResponses ==
    { <<Line("NO_ISSUES", "", <<>>)>>,
      <<Line("ISSUE:", "STYLE_ISSUE", <<>>), Line("LOCATION:", "", <<"a">>)>>,
      <<Line("ISSUE:", "unknown", <<>>), Line("SEVERITY:", "MINOR", <<>>),
        Line("ISSUE:", "LOGIC_ERROR", <<>>), Line("SEVERITY:", "CRITICAL", <<>>)>> }

CrossResponses ==
    { <<Line("CONSISTENT:", "", <<>>)>>,
      <<Line("INCONSISTENCY:", "", <<>>), Line("SECTIONS:", "", <<>>)>> }

-----------------------------------------------------------------------------
(* Editor: src/src/agents/editor.py *)

\* What one language-model call does: it returns a text or raises.
NoExc == [type |-> "", msg |-> "none"]

Returned(text) == [kind |-> "ok", text |-> text, exc |-> NoExc]

Raised(exc) == [kind |-> "raise", text |-> <<>>, exc |-> exc]

Outcomes == {Returned(t) : t \in Texts} \cup {Raised(e) : e \in Exceptions}

\* the same, when the caller does not read the exception's message
AgentOutcomes == {o \in Outcomes : o.exc.msg # ""}

InSeq(seq, x) == \E i \in 1..Len(seq) : seq[i] = x

\* (variant: a section is a key as soon as it has an issue, resolved or not)
RECURSIVE GroupKeysOfAll(_, _, _)
GroupKeysOfAll(issues, i, keys) ==
    IF i > Len(issues) THEN keys
    ELSE IF ~InSeq(keys, issues[i].section)
         THEN GroupKeysOfAll(issues, i + 1, Append(keys, issues[i].section))
         ELSE GroupKeysOfAll(issues, i + 1, keys)

\* keys of issues_by_section, in the insertion order of the dict
RECURSIVE GroupKeys(_, _, _)
GroupKeys(issues, i, keys) ==
    IF i > Len(issues) THEN keys
    ELSE IF ~issues[i].resolved /\ ~InSeq(keys, issues[i].section)
         THEN GroupKeys(issues, i + 1, Append(keys, issues[i].section))
         ELSE GroupKeys(issues, i + 1, keys)

\* issues_by_section[section] as the grouping loop leaves it: the positions, in
\* feedback.issues, of the unresolved issues of that section
RECURSIVE GroupOf(_, _, _)
GroupOf(issues, sec, i) ==
    IF i > Len(issues) THEN <<>>
    ELSE (IF ~issues[i].resolved /\ issues[i].section = sec THEN <<i>> ELSE <<>>)
         \o GroupOf(issues, sec, i + 1)

\* the sort key {CRITICAL: 0, MAJOR: 1, MINOR: 2}.get(x.severity, 3)
SeverityRank(i) ==
    CASE i.severity = "critical" -> 0
      [] i.severity = "major" -> 1
      [] i.severity = "minor" -> 2
      [] OTHER -> 3

\* (variant: an unstable sort, x goes before elements of equal key)
RECURSIVE InsertBeforeEqual(_, _, _, _)
InsertBeforeEqual(issues, sorted, x, k) ==
    IF k > Len(sorted) THEN Append(sorted, x)
    ELSE IF SeverityRank(issues[sorted[k]]) >= SeverityRank(issues[x])
         THEN SubSeq(sorted, 1, k - 1) \o <<x>> \o SubSeq(sorted, k, Len(sorted))
         ELSE InsertBeforeEqual(issues, sorted, x, k + 1)

\* list.sort(key=...) is stable: x goes behind every element whose key is not larger
RECURSIVE InsertByKey(_, _, _, _)
InsertByKey(issues, sorted, x, k) ==
    IF k > Len(sorted) THEN Append(sorted, x)
    ELSE IF SeverityRank(issues[sorted[k]]) > SeverityRank(issues[x])
         THEN SubSeq(sorted, 1, k - 1) \o <<x>> \o SubSeq(sorted, k, Len(sorted))
         ELSE InsertByKey(issues, sorted, x, k + 1)

RECURSIVE SortBySeverity(_, _)
SortBySeverity(issues, grp) ==
    IF grp = <<>> THEN <<>>
    ELSE InsertByKey(issues, SortBySeverity(issues, SubSeq(grp, 1, Len(grp) - 1)),
                     grp[Len(grp)], 1)

\* the section group handed to _edit_section
SortedGroup(issues, sec) == SortBySeverity(issues, GroupOf(issues, sec, 1))

\* `for issue in issues: issue.resolved = True`
MarkResolved(issues, grp) ==
    [i \in 1..Len(issues) |->
        IF InSeq(grp, i) THEN [issues[i] EXCEPT !.resolved = TRUE] ELSE issues[i]]

\* the rewrite request _edit_section sends: the section and the issues, in order
Request(sec, grp) == [section |-> sec, ids |-> grp]

\* EditorAgent._edit_section on the state st = [draft, issues, rewrites, ...]:
\* success tells AgentResult.success, raised the exception that left the call
EditSection(st, sec, grp, out) ==
    IF GetSection(st.draft, sec) = <<>>
    THEN [st EXCEPT !.success = FALSE]
    ELSE IF out.kind = "raise"
    THEN [st EXCEPT !.success = FALSE, !.raised = out.exc,
                    !.rewrites = Append(@, Request(sec, grp))]
    ELSE [st EXCEPT !.success = TRUE,
                    !.draft = SetSection(@, sec, out.text),
                    !.issues = MarkResolved(@, grp),
                    !.rewrites = Append(@, Request(sec, grp))]

\* `except ValueError` of _apply_all_fixes
Swallowed(exc) == exc.type = "ValueError"

\* (variant: no increment)
KeepVersion(d) == d

\* draft.version += 1
IncrementVersion(d) == [d EXCEPT !.version = @ + 1]

\* (variant: the version is incremented per rewritten section)
EditGroupVersioned(st, issues0, sec, out) ==
    IF sec \notin SectionType THEN st
    ELSE LET r == EditSection(st, sec, SortedGroup(issues0, sec), out)
         IN IF r.raised # NoExc /\ Swallowed(r.raised) THEN [r EXCEPT !.raised = NoExc]
            ELSE IF r.success
                 THEN [r EXCEPT !.sections_edited = Append(@, sec),
                                !.draft = IncrementVersion(@)]
                 ELSE r

\* (variant: an unknown section name ends the pass with the ValueError)
EditGroupStrict(st, issues0, sec, out) ==
    IF sec \notin SectionType
    THEN [st EXCEPT !.raised = [type |-> "ValueError", msg |-> "m"]]
    ELSE LET r == EditSection(st, sec, SortedGroup(issues0, sec), out)
         IN IF r.raised # NoExc /\ Swallowed(r.raised) THEN [r EXCEPT !.raised = NoExc]
            ELSE IF r.success
                 THEN [r EXCEPT !.sections_edited = Append(@, sec)]
                 ELSE r

\* one turn of the loop `for section_str, issues in issues_by_section.items()`
EditGroup(st, issues0, sec, out) ==
    IF sec \notin SectionType THEN st
    ELSE LET r == EditSection(st, sec, SortedGroup(issues0, sec), out)
         IN IF r.raised # NoExc /\ Swallowed(r.raised) THEN [r EXCEPT !.raised = NoExc]
            ELSE IF r.success
                 THEN [r EXCEPT !.sections_edited = Append(@, sec)]
                 ELSE r

RECURSIVE EditGroups(_, _, _, _, _)
EditGroups(st, issues0, keys, k, outs) ==
    IF k > Len(keys) \/ st.raised # NoExc THEN st
    ELSE EditGroups(EditGroup(st, issues0, keys[k], outs[k]), issues0, keys, k + 1, outs)

EditState(d, issues) ==
    [draft |-> d, issues |-> issues, rewrites |-> <<>>, success |-> FALSE,
     raised |-> NoExc, sections_edited |-> <<>>]

\* EditorAgent._apply_all_fixes: outs[k] is what the language model does for the
\* k-th section group, if it is asked
ApplyAllFixes(d, fb, outs) ==
    LET r == EditGroups(EditState(d, fb.issues), fb.issues, GroupKeys(fb.issues, 1, <<>>),
                        1, outs)
    IN IF r.raised # NoExc THEN r
       ELSE [r EXCEPT !.draft = IncrementVersion(@), !.success = TRUE]

\* EditorAgent._edit_issue
EditIssue(d, fb, i, out) ==
    LET st == EditState(d, fb.issues)
        sec == fb.issues[i].section
    IN IF sec = "" \/ sec \notin SectionType THEN st
       ELSE EditSection(st, sec, <<i>>, out)

-----------------------------------------------------------------------------
(* The agents' operations, invoked directly on a draft and its feedback *)

\* the sections that receive text in the model: one written by the body writer
\* (agents/body_writer.py) and one written by the intro writer (agents/intro_writer.py)
ModelSections == {"introduction", "methodology"}

Op(name, result, arg) == [name |-> name, result |-> result, arg |-> arg]

Ended(r) == IF r.raised # NoExc THEN "raised" ELSE IF r.success THEN "ok" ELSE "fail"

Ascending(S) == CHOOSE q \in [1..Cardinality(S) -> S] :
                    \A i, j \in 1..Cardinality(S) : i < j => q[i] < q[j]

NumIssues == IF feedback = None THEN 0 ELSE Len(feedback.issues)

\* issue lists a caller hands to edit_section: none, one issue, or all of them
PassedIssues == {{}} \cup {{i} : i \in 1..NumIssues} \cup {1..NumIssues}

\* whether the k-th section group of apply_all_fixes reaches the language model
Asked(d, issues, k) ==
    LET sec == GroupKeys(issues, 1, <<>>)[k]
    IN sec \in SectionType /\ GetSection(d, sec) # <<>>

\* what the language model does for each section group; a group that is not asked
\* has no outcome to choose
GroupOutcomes(d, issues, O) ==
    {outs \in [1..Len(GroupKeys(issues, 1, <<>>)) -> O] :
        \A k \in DOMAIN outs : ~Asked(d, issues, k) => outs[k] = Returned(<<>>)}

pipeline_vars == <<min_cycles, max_cycles, pc, cycle, current_stage, status, error,
                   last_error, loop_state, warned, reviews, edits, reviewed>>

InitDrafts ==
    {SetSection(SetSection(NewDraft, "methodology", t1), "introduction", t2) :
        t1 \in Texts, t2 \in Texts}

InitAgent ==
    /\ draft \in InitDrafts
    /\ feedback = None
    /\ min_cycles = 2 /\ max_cycles = 5
    /\ pc = "api" /\ cycle = 0 /\ current_stage = "init" /\ status = "draft"
    /\ error = None /\ last_error = None /\ loop_state = "none" /\ warned = FALSE
    /\ reviews = <<>> /\ edits = 0 /\ reviewed = None
    /\ last_op = Op("none", "ok", 0) /\ rewrites = <<>> /\ fixes_done = 0
    /\ version0 = draft.version /\ fb_seq = 0 /\ nops = 0
    /\ attempts = 0 /\ raised = NoExc /\ sources = <<>> /\ unique = <<>>
    /\ InitUnit

\* PaperDraft.set_section called by a writer stage
AgentSetSection ==
    \E sec \in ModelSections, t \in Texts :
        /\ pc = "api" /\ nops < MaxOps
        /\ draft' = SetSection(draft, sec, t)
        /\ last_op' = Op("set_section", "ok", 0)
        /\ nops' = nops + 1
        /\ UNCHANGED <<feedback, rewrites, fixes_done, version0, fb_seq, pipeline_vars>>
    /\ UNCHANGED <<attempts, raised, finder_vars, unit_vars>>

\* ReviewerAgent.execute(action="review", draft, cycle): every call returns ...
AgentReview ==
    \E c \in 1..MaxCycleArg, resps \in [ModelSections -> SectionResponses],
       cross \in CrossResponses :
        /\ pc = "api" /\ nops < MaxOps
        /\ feedback' = NewFeedback(fb_seq + 1, draft, c, resps, cross)
        /\ draft' = Reviewed(draft, c)
        /\ fb_seq' = fb_seq + 1
        /\ last_op' = Op("review", "ok", c)
        /\ nops' = nops + 1
        /\ UNCHANGED <<rewrites, fixes_done, version0, pipeline_vars>>
    /\ UNCHANGED <<attempts, raised, finder_vars, unit_vars>>

\* ... or one of its language-model calls raises: the feedback under construction
\* is lost and draft.review_cycle is not set
AgentReviewRaises ==
    \E c \in 1..MaxCycleArg :
        /\ pc = "api" /\ nops < MaxOps
        /\ last_op' = Op("review", "raised", c)
        /\ fb_seq' = fb_seq + 1
        /\ nops' = nops + 1
        /\ UNCHANGED <<draft, feedback, rewrites, fixes_done, version0, pipeline_vars>>
    /\ UNCHANGED <<attempts, raised, finder_vars, unit_vars>>

\* ReviewerAgent.execute(action="final_review", draft, cycle)
AgentFinalReview ==
    \E c \in 1..MaxCycleArg, resps \in [ModelSections -> SectionResponses],
       cross \in CrossResponses :
        /\ pc = "api" /\ nops < MaxOps
        /\ feedback' = FinalApproval(NewFeedback(fb_seq + 1, draft, c, resps, cross), c)
        /\ draft' = Reviewed(draft, c)
        /\ fb_seq' = fb_seq + 1
        /\ last_op' = Op("final_review", "ok", c)
        /\ nops' = nops + 1
        /\ UNCHANGED <<rewrites, fixes_done, version0, pipeline_vars>>
    /\ UNCHANGED <<attempts, raised, finder_vars, unit_vars>>

\* ReviewerAgent.execute(action="check_issues", draft, previous_feedback)
AgentCheckResolved ==
    /\ pc = "api" /\ nops < MaxOps /\ feedback # None
    /\ feedback' = CheckResolvedIssues(draft, feedback)
    /\ last_op' = Op("check_issues", "ok", 0)
    /\ nops' = nops + 1
    /\ UNCHANGED <<draft, rewrites, fixes_done, version0, fb_seq, pipeline_vars>>
    /\ UNCHANGED <<attempts, raised, finder_vars, unit_vars>>

\* EditorAgent.execute(action="apply_all_fixes", draft, feedback)
AgentApplyAllFixes ==
    /\ pc = "api" /\ nops < MaxOps /\ feedback # None
    /\ \E outs \in GroupOutcomes(draft, feedback.issues, AgentOutcomes) :
        LET r == ApplyAllFixes(draft, feedback, outs)
        IN /\ draft' = r.draft
           /\ feedback' = [feedback EXCEPT !.issues = r.issues]
           /\ rewrites' = r.rewrites
           /\ fixes_done' = IF r.raised = NoExc THEN fixes_done + 1 ELSE fixes_done
           /\ last_op' = Op("apply_all_fixes", Ended(r), 0)
    /\ nops' = nops + 1
    /\ UNCHANGED <<version0, fb_seq, pipeline_vars>>
    /\ UNCHANGED <<attempts, raised, finder_vars, unit_vars>>

\* EditorAgent.execute(action="edit_section", draft, section_type, issues)
AgentEditSection ==
    /\ pc = "api" /\ nops < MaxOps /\ feedback # None
    /\ \E sec \in ModelSections, S \in PassedIssues, out \in AgentOutcomes :
        LET r == EditSection(EditState(draft, feedback.issues), sec, Ascending(S), out)
        IN /\ draft' = r.draft
           /\ feedback' = [feedback EXCEPT !.issues = r.issues]
           /\ rewrites' = r.rewrites
           /\ last_op' = Op("edit_section", Ended(r), 0)
    /\ nops' = nops + 1
    /\ UNCHANGED <<fixes_done, version0, fb_seq, pipeline_vars>>
    /\ UNCHANGED <<attempts, raised, finder_vars, unit_vars>>

\* EditorAgent.execute(action="edit", draft, issue)
AgentEditIssue ==
    /\ pc = "api" /\ nops < MaxOps /\ feedback # None
    /\ \E i \in 1..NumIssues, out \in AgentOutcomes :
        LET r == EditIssue(draft, feedback, i, out)
        IN /\ draft' = r.draft
           /\ feedback' = [feedback EXCEPT !.issues = r.issues]
           /\ rewrites' = r.rewrites
           /\ last_op' = Op("edit", Ended(r), 0)
    /\ nops' = nops + 1
    /\ UNCHANGED <<fixes_done, version0, fb_seq, pipeline_vars>>
    /\ UNCHANGED <<attempts, raised, finder_vars, unit_vars>>

NextAgent ==
    \/ AgentSetSection
    \/ AgentReview
    \/ AgentReviewRaises
    \/ AgentFinalReview
    \/ AgentCheckResolved
    \/ AgentApplyAllFixes
    \/ AgentEditSection
    \/ AgentEditIssue

SpecAgent == InitAgent /\ [][NextAgent]_vars

-----------------------------------------------------------------------------
(* Properties of the agents' operations *)

ReviewReturned == last_op.name = "review" /\ last_op.result = "ok"

\* C1: a review called with a cycle number below 2 returns a feedback whose approved
\* flag is false, whatever the draft and whatever issues were found (also none).
C1_FirstCycleNeverApproved ==
    (ReviewReturned /\ last_op.arg < 2) => feedback.approved = FALSE

\* C1 witness: a review of cycle 1 returned and found no issue at all
C1_Witness ==
    /\ ReviewReturned /\ last_op.arg = 1 /\ feedback.cycle = 1
    /\ feedback.issues = <<>> /\ ~feedback.approved

\* C2: a review called with a cycle number of at least 2 returns approved = true
\* exactly when none of the issues it found (per-section and cross-section together)
\* is unresolved with severity critical or major.
C2_ApprovedIffNoBlockingIssue ==
    (ReviewReturned /\ last_op.arg >= 2) =>
        (feedback.approved <=>
            ~\E i \in 1..Len(feedback.issues) :
                /\ feedback.issues[i].severity \in {"critical", "major"}
                /\ ~feedback.issues[i].resolved)

\* C2 witness: a review of cycle 2 approved a draft in which it found only a minor
\* issue
C2_Witness ==
    /\ ReviewReturned /\ last_op.arg = 2 /\ feedback.approved
    /\ Len(feedback.issues) >= 1
    /\ \A i \in 1..Len(feedback.issues) :
           feedback.issues[i].severity = "minor" /\ ~feedback.issues[i].resolved

\* C7: draft.version is its initial value plus the number of completed
\* apply_all_fixes calls: each call adds exactly 1 whatever number of sections it
\* rewrote, no other operation changes it, and it never decreases.
C7_VersionCountsCompletedPasses == draft.version = version0 + fixes_done

\* C7 witness: two apply_all_fixes calls completed, the second one rewrote no section
C7_Witness ==
    /\ fixes_done = 2 /\ draft.version = version0 + 2
    /\ last_op = Op("apply_all_fixes", "ok", 0) /\ rewrites = <<>>

\* C8: no operation on a feedback removes an issue from its list or turns a resolved
\* flag from true to false (so the count of resolved issues never decreases).
C8_IssuesStayAndStayResolved ==
    [][(feedback # None /\ feedback' # None /\ feedback'.id = feedback.id) =>
          /\ Len(feedback'.issues) = Len(feedback.issues)
          /\ \A i \in 1..Len(feedback.issues) :
                /\ feedback'.issues[i].id = feedback.issues[i].id
                /\ feedback.issues[i].resolved => feedback'.issues[i].resolved]_vars

\* C8 witness: check-resolved ran on a feedback holding an issue that an editor
\* operation had resolved (the check itself resolves only issues with an excerpt) and
\* whose excerpt-less flag it had to keep
C8_Witness ==
    /\ last_op.name = "check_issues" /\ feedback # None
    /\ \E i \in 1..Len(feedback.issues) :
          feedback.issues[i].resolved /\ feedback.issues[i].text_excerpt = <<>>

\* C9: after a completed apply_all_fixes call every issue that was unresolved and
\* lies in a known section with non-empty content is resolved, and the flag of every
\* other issue is unchanged.
C9_ResolvesExactlyTheRewritable ==
    [][(last_op'.name = "apply_all_fixes" /\ last_op'.result = "ok" /\ nops' = nops + 1) =>
          \A i \in 1..Len(feedback.issues) :
              feedback'.issues[i].resolved =
                  (\/ feedback.issues[i].resolved
                   \/ /\ feedback.issues[i].section \in SectionType
                      /\ GetSection(draft, feedback.issues[i].section) # <<>>)]_vars

-----------------------------------------------------------------------------
(* Orchestrator: src/src/orchestrator.py *)

\* str(e), kept apart from "no error recorded"
Some(m) == [msg |-> m]

\* the stages of generate_paper that neither build nor revise the draft
EarlyStages ==
    <<"topic_refinement", "source_discovery", "source_summarization", "research_planning">>

StageAfter(stage) ==
    CASE stage = "topic_refinement" -> "source_discovery"
      [] stage = "source_discovery" -> "source_summarization"
      [] stage = "source_summarization" -> "research_planning"
      [] stage = "research_planning" -> "body_writing"

\* (variant: range(1, max_cycles + 2))
MoreCyclesInclusive(c) == c <= max_cycles

\* `for cycle in range(1, max_cycles + 1)`: whether another iteration follows cycle c
MoreCycles(c) == c < max_cycles

\* (variant: without the minimum number of cycles)
ConvergesWhenApproved(fb, c) == fb.approved

\* `if review_result.data.get("approved") and cycle >= min_cycles: break`
Converges(fb, c) == fb.approved /\ c >= min_cycles

\* `if not self._state.feedback or not self._state.feedback.approved: logger.warning`
Warns(fb) == fb = None \/ ~fb.approved

\* (variant: a finished run marked failed)
MarkFailedStatus(st) == "failed"

\* ResearchSession.mark_completed / mark_failed: the status they leave
MarkCompleted(st) == "completed"

MarkFailed(st) == "failed"

agent_hist == <<version0, nops>>

config == <<min_cycles, max_cycles>>

loop_hist == <<loop_state, warned, reviews, edits, reviewed>>

Init ==
    /\ draft = None /\ feedback = None
    /\ min_cycles \in 1..(MaxConfigCycles + 1) /\ max_cycles \in 0..MaxConfigCycles
    /\ pc = "idle" /\ cycle = 0 /\ current_stage = "init" /\ status = "draft"
    /\ error = None /\ last_error = None /\ loop_state = "none" /\ warned = FALSE
    /\ reviews = <<>> /\ edits = 0 /\ reviewed = None
    /\ last_op = Op("none", "ok", 0) /\ rewrites = <<>> /\ fixes_done = 0
    /\ version0 = NewDraft.version /\ fb_seq = 0 /\ nops = 0
    /\ attempts = 0 /\ raised = NoExc /\ sources = <<>> /\ unique = <<>>
    /\ InitUnit

\* BaseAgent.generate awaits self.llm.generate once and re-raises what it raises
GenerateAttempts == 1

\* (variant: the except branch records the error in the workflow state only)
FailsUnmarked(stage, exc) ==
    /\ error' = Some(exc.msg)
    /\ current_stage' = "failed"
    /\ raised' = exc
    /\ last_op' = Op(stage, "raised", cycle)
    /\ pc' = "done"
    /\ UNCHANGED <<status, last_error>>

\* the `except Exception as e` branch of generate_paper
Fails(stage, exc) ==
    /\ error' = Some(exc.msg)
    /\ current_stage' = "failed"
    /\ status' = MarkFailed(status)
    /\ last_error' = Some(exc.msg)
    /\ raised' = exc
    /\ last_op' = Op(stage, "raised", cycle)
    /\ pc' = "done"

\* generate_paper up to its try block
GeneratePaper ==
    /\ pc = "idle"
    /\ status' = "in_progress"
    /\ pc' = "topic_refinement"
    /\ UNCHANGED <<draft, feedback, config, cycle, current_stage, error, last_error,
                   loop_hist, last_op, rewrites, fixes_done, fb_seq, agent_hist>>
    /\ UNCHANGED <<attempts, raised, finder_vars, unit_vars>>

\* _stage_topic_refinement .. _stage_research_planning, every call returning
EarlyStage ==
    /\ \E k \in 1..Len(EarlyStages) : pc = EarlyStages[k]
    /\ current_stage' = pc
    /\ last_op' = Op(pc, "ok", 0)
    /\ pc' = StageAfter(pc)
    /\ UNCHANGED <<draft, feedback, config, cycle, status, error, last_error, loop_hist,
                   rewrites, fixes_done, fb_seq, agent_hist>>
    /\ UNCHANGED <<attempts, raised, finder_vars, unit_vars>>

\* a stage outside the review-edit loop whose agent call raises
StageRaises ==
    /\ \/ \E k \in 1..Len(EarlyStages) : pc = EarlyStages[k]
       \/ pc \in {"body_writing", "intro_conclusion", "final_review"}
    /\ \E exc \in Exceptions : Fails(pc, exc)
    /\ UNCHANGED <<draft, feedback, config, cycle, loop_hist, rewrites, fixes_done,
                   fb_seq, agent_hist>>
    /\ UNCHANGED <<attempts, finder_vars, unit_vars>>

\* _stage_body_writing: the body writer builds the draft (version 1)
BodyWriting ==
    /\ pc = "body_writing"
    /\ \E t \in Texts : draft' = SetSection(NewDraft, "methodology", t)
    /\ current_stage' = "body_writing"
    /\ last_op' = Op("body_writing", "ok", 0)
    /\ pc' = "intro_conclusion"
    /\ UNCHANGED <<feedback, config, cycle, status, error, last_error, loop_hist,
                   rewrites, fixes_done, fb_seq, agent_hist>>
    /\ UNCHANGED <<attempts, raised, finder_vars, unit_vars>>

\* _stage_intro_conclusion: the intro writer adds its sections to the draft
IntroConclusion ==
    /\ pc = "intro_conclusion"
    /\ \E t \in Texts : draft' = SetSection(draft, "introduction", t)
    /\ current_stage' = "intro_conclusion"
    /\ last_op' = Op("intro_conclusion", "ok", 0)
    /\ pc' = "loop"
    /\ UNCHANGED <<feedback, config, cycle, status, error, last_error, loop_hist,
                   rewrites, fixes_done, fb_seq, agent_hist>>
    /\ UNCHANGED <<attempts, raised, finder_vars, unit_vars>>

\* the head of the for loop of _stage_review_edit_loop
NextCycle ==
    /\ pc = "loop"
    /\ IF MoreCycles(cycle)
       THEN /\ cycle' = cycle + 1
            /\ current_stage' = "review"
            /\ pc' = "review"
            /\ UNCHANGED loop_state
       ELSE /\ loop_state' = "exhausted"
            /\ pc' = "loop_exit"
            /\ UNCHANGED <<cycle, current_stage>>
    /\ UNCHANGED <<draft, feedback, config, status, error, last_error, warned, reviews,
                   edits, reviewed, last_op, rewrites, fixes_done, fb_seq, agent_hist>>
    /\ UNCHANGED <<attempts, raised, finder_vars, unit_vars>>

\* the review of one cycle returns; the loop breaks or goes on to the edit pass
Review ==
    /\ pc = "review"
    /\ \E resps \in [ModelSections -> SectionResponses], cross \in CrossResponses :
        /\ feedback' = NewFeedback(fb_seq + 1, draft, cycle, resps, cross)
        /\ draft' = Reviewed(draft, cycle)
    /\ fb_seq' = fb_seq + 1
    /\ reviews' = Append(reviews, cycle)
    /\ reviewed' = [draft |-> draft', feedback |-> feedback']
    /\ last_op' = Op("review", "ok", cycle)
    /\ IF Converges(feedback', cycle)
       THEN /\ loop_state' = "converged"
            /\ pc' = "loop_exit"
            /\ UNCHANGED current_stage
       ELSE /\ current_stage' = "editing"
            /\ pc' = "editing"
            /\ UNCHANGED loop_state
    /\ UNCHANGED <<config, cycle, status, error, last_error, warned, edits, rewrites,
                   fixes_done, agent_hist>>
    /\ UNCHANGED <<attempts, raised, finder_vars, unit_vars>>

\* one of the review's language-model calls raises
ReviewRaises ==
    /\ pc = "review"
    /\ \E exc \in {e \in Exceptions : e.msg # ""} : Fails("review", exc)
    /\ attempts' = GenerateAttempts
    /\ fb_seq' = fb_seq + 1
    /\ reviews' = Append(reviews, cycle)
    /\ UNCHANGED <<draft, feedback, config, cycle, loop_state, warned, edits, reviewed,
                   rewrites, fixes_done, agent_hist>>
    /\ UNCHANGED <<finder_vars, unit_vars>>

\* (variant: the loop goes on to the next cycle without running the edit pass)
EditPassSkipped ==
    /\ pc = "editing"
    /\ pc' = "loop"
    /\ UNCHANGED <<draft, feedback, config, cycle, current_stage, status, error,
                   last_error, loop_hist, last_op, rewrites, fixes_done, fb_seq,
                   agent_hist>>
    /\ UNCHANGED <<attempts, raised, finder_vars, unit_vars>>

\* the edit pass of one cycle: apply_all_fixes on the draft and the feedback in place
ApplyFixes ==
    /\ pc = "editing"
    /\ \E outs \in GroupOutcomes(draft, feedback.issues, AgentOutcomes) :
        LET r == ApplyAllFixes(draft, feedback, outs)
        IN /\ draft' = r.draft
           /\ feedback' = [feedback EXCEPT !.issues = r.issues]
           /\ rewrites' = r.rewrites
           /\ IF r.raised # NoExc
              THEN /\ Fails("apply_all_fixes", r.raised)
                   /\ attempts' = GenerateAttempts
                   /\ UNCHANGED fixes_done
              ELSE /\ fixes_done' = fixes_done + 1
                   /\ last_op' = Op("apply_all_fixes", "ok", cycle)
                   /\ pc' = "loop"
                   /\ UNCHANGED <<current_stage, status, error, last_error, attempts, raised>>
    /\ edits' = edits + 1
    /\ UNCHANGED <<config, cycle, loop_state, warned, reviews, reviewed, fb_seq,
                   agent_hist>>
    /\ UNCHANGED <<finder_vars, unit_vars>>

\* after the loop: the warning, and the final-review stage is entered
LoopExit ==
    /\ pc = "loop_exit"
    /\ warned' = Warns(feedback)
    /\ current_stage' = "final_review"
    /\ pc' = "final_review"
    /\ UNCHANGED <<draft, feedback, config, cycle, status, error, last_error, loop_state,
                   reviews, edits, reviewed, last_op, rewrites, fixes_done, fb_seq,
                   agent_hist>>
    /\ UNCHANGED <<attempts, raised, finder_vars, unit_vars>>

\* _stage_final_review returns; generate_paper marks the run completed
FinalReview ==
    /\ pc = "final_review"
    /\ current_stage' = "completed"
    /\ status' = MarkCompleted(status)
    /\ last_op' = Op("final_review", "ok", 0)
    /\ pc' = "done"
    /\ UNCHANGED <<draft, feedback, config, cycle, error, last_error, loop_hist,
                   rewrites, fixes_done, fb_seq, agent_hist>>
    /\ UNCHANGED <<attempts, raised, finder_vars, unit_vars>>

\* `if state.error:` of _run_generation: a missing or empty message is falsy
Truthy(e) == e # None /\ e.msg # ""

\* positions of _run_generation once generate_paper has returned
AfterRun == {"done", "cli_error", "cli_export"}

\* _run_generation, generate_paper having returned a state with an error: the error
\* is printed and the routine returns
CliReportsError ==
    /\ pc = "done" /\ Truthy(error)
    /\ pc' = "cli_error"
    /\ UNCHANGED <<draft, feedback, config, cycle, current_stage, status, error,
                   last_error, loop_hist, last_op, rewrites, fixes_done, fb_seq,
                   agent_hist>>
    /\ UNCHANGED <<attempts, raised, finder_vars, unit_vars>>

\* _run_generation otherwise: orchestrator.export_paper is called
CliExports ==
    /\ pc = "done" /\ ~Truthy(error)
    /\ pc' = "cli_export"
    /\ UNCHANGED <<draft, feedback, config, cycle, current_stage, status, error,
                   last_error, loop_hist, last_op, rewrites, fixes_done, fb_seq,
                   agent_hist>>
    /\ UNCHANGED <<attempts, raised, finder_vars, unit_vars>>

Next ==
    \/ GeneratePaper
    \/ EarlyStage
    \/ StageRaises
    \/ BodyWriting
    \/ IntroConclusion
    \/ NextCycle
    \/ Review
    \/ ReviewRaises
    \/ ApplyFixes
    \/ LoopExit
    \/ FinalReview
    \/ CliReportsError
    \/ CliExports

Spec == Init /\ [][Next]_vars

\* positions of generate_paper
Positions ==
    {"idle", "topic_refinement", "source_discovery", "source_summarization",
     "research_planning", "body_writing", "intro_conclusion", "loop", "review", "editing",
     "loop_exit", "final_review", "done"}

\* the call generate_paper is waiting for ends (it returns or raises), and
\* generate_paper moves on from its position
CallEnds == pc # "done" /\ pc' \in Positions \ {pc}

\* every awaited call ends: generate_paper does not stay at one position forever
FairSpec == Spec /\ WF_pc(CallEnds)

-----------------------------------------------------------------------------
(* Properties of the review-edit loop *)

\* C3: the first cycle c whose review approves while c >= min_cycles ends the loop:
\* no edit pass follows an approving review at c >= min_cycles, and a loop that
\* converged at cycle c ran exactly the reviews 1..c and c-1 edit passes and holds
\* the draft and the feedback as that approving review returned them.
C3_ConvergenceEndsLoop ==
    /\ pc = "editing" => ~(feedback.approved /\ cycle >= min_cycles)
    /\ loop_state = "converged" =>
          /\ cycle \in 1..max_cycles /\ cycle >= min_cycles
          /\ feedback.approved /\ feedback.cycle = cycle
          /\ reviews = [k \in 1..cycle |-> k]
          /\ edits = cycle - 1
          /\ draft = reviewed.draft /\ feedback = reviewed.feedback

\* C3 witness: a run that converged at cycle 2, after two reviews and one edit pass,
\* and has gone on to the end of the workflow
C3_Witness ==
    /\ loop_state = "converged" /\ cycle = 2 /\ min_cycles = 2 /\ max_cycles = 3
    /\ reviews = <<1, 2>> /\ edits = 1 /\ pc = "done"

\* C4 (as claimed): when no cycle converges, the feedback held at loop exit is the
\* one of the review of cycle max_cycles and the draft is the one that review
\* examined, with no section, version or issue flag changed after it.
C4_NothingChangesAfterLastReview ==
    (loop_state = "exhausted" /\ max_cycles >= 1) =>
        /\ feedback.cycle = max_cycles
        /\ feedback = reviewed.feedback
        /\ draft = reviewed.draft

\* C4 (as the loop runs): when no cycle converges (max_cycles >= 1), the feedback
\* held at loop exit is the object the review of cycle max_cycles produced and the
\* draft is the one it examined, both after the edit pass of cycle max_cycles: the
\* version is one higher, resolved flags may have turned true, and a section differs
\* only if the feedback holds an issue located in it.
C4_ExhaustedKeepsLastEditPass ==
    (loop_state = "exhausted" /\ max_cycles >= 1) =>
        /\ cycle = max_cycles /\ edits = max_cycles
        /\ feedback.id = reviewed.feedback.id
        /\ feedback.cycle = max_cycles
        /\ feedback.approved = reviewed.feedback.approved
        /\ Len(feedback.issues) = Len(reviewed.feedback.issues)
        /\ \A i \in 1..Len(feedback.issues) :
              /\ [feedback.issues[i] EXCEPT !.resolved = FALSE] = reviewed.feedback.issues[i]
        /\ draft.version = reviewed.draft.version + 1
        /\ draft.review_cycle = max_cycles
        /\ \A sec \in SectionType :
              draft.sections[sec] # reviewed.draft.sections[sec] =>
                  \E i \in 1..Len(feedback.issues) :
                      feedback.issues[i].section = sec /\ feedback.issues[i].resolved

\* C4 witness: an exhausted loop whose last edit pass rewrote a section and resolved
\* an issue after the last review
C4_Witness ==
    /\ loop_state = "exhausted" /\ max_cycles >= 1
    /\ draft.sections # reviewed.draft.sections
    /\ \E i \in 1..Len(feedback.issues) :
          feedback.issues[i].resolved /\ ~reviewed.feedback.issues[i].resolved

\* C5: the loop terminates, having invoked the reviewer at most max_cycles times and
\* the editor at most max_cycles times, the reviewer with the cycle numbers 1, 2,
\* 3, ... in order (a call that raises ends the run).
C5_LoopTerminatesWithinBounds ==
    /\ [](/\ Len(reviews) <= max_cycles
          /\ edits <= max_cycles /\ edits <= Len(reviews)
          /\ reviews = [k \in 1..Len(reviews) |-> k])
    /\ <>(loop_state # "none" \/ current_stage = "failed")

\* C5 witness: a loop that ran all of its three cycles, every call returning
C5_Witness ==
    /\ loop_state = "exhausted" /\ max_cycles = 3
    /\ reviews = <<1, 2, 3>> /\ edits = 3

\* C6 (as claimed): once the loop exits exhausted the workflow ends in stage
\* COMPLETED with session status completed and no error recorded.
C6_ExhaustedAlwaysCompletes ==
    (loop_state = "exhausted" /\ pc = "done") =>
        /\ current_stage = "completed" /\ status = "completed"
        /\ error = None /\ last_error = None

\* C6 (as the workflow runs): exhausting the loop raises no error and leads to the
\* final-review stage; if that stage's format-review call returns, the workflow ends
\* in stage COMPLETED with session status completed, no error recorded and the
\* draft in place; the only failure after exhaustion is that call raising.
C6_ExhaustionIsNoError ==
    loop_state = "exhausted" =>
        /\ pc \in {"loop_exit", "final_review"} \cup AfterRun
        /\ pc \notin AfterRun => error = None /\ last_error = None /\ status = "in_progress"
        /\ pc = "final_review" => current_stage = "final_review"
        /\ (pc \in AfterRun /\ last_op.result = "ok") =>
              /\ last_op.name = "final_review"
              /\ current_stage = "completed" /\ status = "completed"
              /\ error = None /\ last_error = None /\ draft # None
        /\ (pc \in AfterRun /\ last_op.result = "raised") =>
              last_op.name = "final_review" /\ current_stage = "failed"

\* C6 witness: a run that exhausted its cycles without approval and completed
C6_Witness ==
    /\ loop_state = "exhausted" /\ max_cycles >= 1 /\ ~feedback.approved /\ warned
    /\ pc = "done" /\ current_stage = "completed" /\ status = "completed"
    /\ error = None

-----------------------------------------------------------------------------
(* apply_all_fixes on every short issue list: the order inside a section group *)

\* section names no SectionType has: the one _check_consistency gives its findings
\* and the default of IssueLocation.section
UnknownSections == {"cross-section", ""}

\* feedback.issues of up to MaxGroup unresolved issues, of every severity, spread
\* over the model's sections, and minor issues of the unknown section names
OrderIssueLists ==
    UNION {[1..n -> {Issue("vague_claim", sev, sec, <<>>) :
                        sev \in IssueSeverity, sec \in ModelSections}
                    \cup {Issue("vague_claim", "minor", sec, <<>>) :
                             sec \in UnknownSections}] : n \in 0..MaxGroup}

InitOrder ==
    /\ \E t \in {<<>>, <<"a">>} :
          draft = SetSection(SetSection(NewDraft, "methodology", t), "introduction", <<"a">>)
    /\ \E q \in OrderIssueLists :
          feedback = [id |-> 1, cycle |-> 1, issues |-> Renumber(q), approved |-> FALSE]
    /\ min_cycles = 2 /\ max_cycles = 5
    /\ pc = "order" /\ cycle = 0 /\ current_stage = "init" /\ status = "draft"
    /\ error = None /\ last_error = None /\ loop_state = "none" /\ warned = FALSE
    /\ reviews = <<>> /\ edits = 0 /\ reviewed = None
    /\ last_op = Op("none", "ok", 0) /\ rewrites = <<>> /\ fixes_done = 0
    /\ version0 = draft.version /\ fb_seq = 1 /\ nops = 0
    /\ attempts = 0 /\ raised = NoExc /\ sources = <<>> /\ unique = <<>>
    /\ InitUnit

\* EditorAgent.execute(action="apply_all_fixes", draft, feedback), every rewrite
\* call returning
OrderApplyAllFixes ==
    /\ pc = "order" /\ nops = 0
    /\ \E outs \in GroupOutcomes(draft, feedback.issues, {Returned(t) : t \in Texts}) :
        LET r == ApplyAllFixes(draft, feedback, outs)
        IN /\ draft' = r.draft
           /\ feedback' = [feedback EXCEPT !.issues = r.issues]
           /\ rewrites' = r.rewrites
           /\ fixes_done' = fixes_done + 1
           /\ last_op' = Op("apply_all_fixes", Ended(r), 0)
    /\ nops' = nops + 1
    /\ UNCHANGED <<version0, fb_seq, pipeline_vars>>
    /\ UNCHANGED <<attempts, raised, finder_vars, unit_vars>>

NextOrder == OrderApplyAllFixes

SpecOrder == InitOrder /\ [][NextOrder]_vars

RankOfSeverity(sev) == CASE sev = "critical" -> 0 [] sev = "major" -> 1 [] sev = "minor" -> 2

\* C10: in every section group handed to the rewrite step the issues come critical
\* first, then major, then minor, issues of equal severity in their order of
\* feedback.issues, and the group holds exactly the section's issues.
C10_GroupsOrderedStably ==
    last_op.name = "apply_all_fixes" =>
        \A r \in 1..Len(rewrites) :
            LET ids == rewrites[r].ids
                sev(k) == RankOfSeverity(feedback.issues[ids[k]].severity)
            IN /\ \A a, b \in 1..Len(ids) :
                      a < b => \/ sev(a) < sev(b)
                               \/ sev(a) = sev(b) /\ ids[a] < ids[b]
               /\ {ids[k] : k \in 1..Len(ids)} =
                      {i \in 1..Len(feedback.issues) :
                          feedback.issues[i].section = rewrites[r].section}

\* C10 witness: the severities [minor, critical, major, minor] of one section reached
\* the rewrite step as [critical, major, minor, minor], the two minors in list order
C10_Witness ==
    /\ last_op.name = "apply_all_fixes"
    /\ Len(feedback.issues) = 4
    /\ [i \in 1..4 |-> feedback.issues[i].severity] = <<"minor", "critical", "major", "minor">>
    /\ \A i \in 1..4 : feedback.issues[i].section = "introduction"
    /\ rewrites = <<Request("introduction", <<2, 3, 1, 4>>)>>

-----------------------------------------------------------------------------
(* PaperDraft.set_section over texts with whitespace: src/src/models/paper.py *)

MaxWordTextLen == 3    \* longest section text of SpecWords

\* section contents made of a letter and a blank
WordTexts == UNION {[1..n -> {"a", " "}] : n \in 0..MaxWordTextLen}

\* PaperDraft() before any section is written
InitWords ==
    /\ draft = NewDraft
    /\ feedback = None
    /\ min_cycles = 2 /\ max_cycles = 5
    /\ pc = "words" /\ cycle = 0 /\ current_stage = "init" /\ status = "draft"
    /\ error = None /\ last_error = None /\ loop_state = "none" /\ warned = FALSE
    /\ reviews = <<>> /\ edits = 0 /\ reviewed = None
    /\ last_op = Op("none", "ok", 0) /\ rewrites = <<>> /\ fixes_done = 0
    /\ version0 = draft.version /\ fb_seq = 0 /\ nops = 0
    /\ attempts = 0 /\ raised = NoExc /\ sources = <<>> /\ unique = <<>>
    /\ InitUnit

\* draft.set_section(section_type, content), as the writers and the editor call it
WordsSetSection ==
    /\ pc \in {"words", "load"} /\ draft # None
    /\ \E s \in ModelSections, t \in WordTexts :
          /\ draft' = SetSection(draft, s, t)
          /\ last_op' = Op("set_section", "ok", 0)
    /\ UNCHANGED <<feedback, rewrites, fixes_done, version0, fb_seq, nops, pipeline_vars>>
    /\ UNCHANGED <<attempts, raised, finder_vars, unit_vars>>

NextWords == WordsSetSection

SpecWords == InitWords /\ [][NextWords]_vars

\* the positions of a text where a whitespace-separated word begins
WordStarts(t) == {i \in 1..Len(t) : t[i] # " " /\ (i = 1 \/ t[i - 1] = " ")}

\* C11: after every set_section call draft.word_count is the number of
\* whitespace-separated words of all sections' current contents together.
C11_WordCountIsSumOfSectionWords ==
    last_op.name = "set_section" =>
        draft.word_count =
            Cardinality(UNION {{<<s, i>> : i \in WordStarts(draft.sections[s])} :
                                  s \in SectionType})

\* C11 witness: a section of two words next to a section of one word, three in all
C11_Witness ==
    /\ last_op.name = "set_section"
    /\ draft.sections["introduction"] = <<"a", " ", "a">>
    /\ draft.sections["methodology"] = <<" ", "a", " ">>
    /\ draft.word_count = 3

-----------------------------------------------------------------------------
(* Claims on the feedback of the loop and the configured minimum *)

\* C12: every feedback the loop's reviews produce has approved = false whenever its
\* cycle number is smaller than the configured min_review_cycles.
C12_NotApprovedBelowMinCycles ==
    (feedback # None /\ feedback.cycle < min_cycles) => ~feedback.approved

\* C13: a final review approves exactly when its cycle is at least 2 and the issues
\* it found hold no unresolved critical one; so it approves whatever a standard
\* review of the same cycle and issues approves, and never approves before cycle 2.
C13_FinalReviewApproval ==
    last_op.name = "final_review" =>
        LET unresolved(S) == \E i \in 1..Len(feedback.issues) :
                                 /\ feedback.issues[i].severity \in S
                                 /\ ~feedback.issues[i].resolved
            standard == last_op.arg >= 2 /\ ~unresolved({"critical", "major"})
        IN /\ feedback.approved <=> (last_op.arg >= 2 /\ ~unresolved({"critical"}))
           /\ standard => feedback.approved
           /\ last_op.arg < 2 => ~feedback.approved

\* C13 witness: a final review of cycle 2 approved a draft with an unresolved major
\* issue, which a standard review rejects
C13_Witness ==
    /\ last_op = Op("final_review", "ok", 2)
    /\ feedback.approved
    /\ \E i \in 1..Len(feedback.issues) :
          feedback.issues[i].severity = "major" /\ ~feedback.issues[i].resolved

\* C14: reviews and edit passes strictly alternate, starting with a review: the
\* review of cycle c has ended before the edit pass of cycle c starts, and that edit
\* pass has ended before the review of cycle c + 1 starts; the draft is written only
\* by the one operation generate_paper is waiting for, which ends with that step.
C14_ReviewAndEditAlternate ==
    /\ [](/\ pc = "review" => Len(reviews) = cycle - 1 /\ edits = cycle - 1
          /\ pc = "editing" => Len(reviews) = cycle /\ edits = cycle - 1
          /\ edits <= Len(reviews) /\ Len(reviews) <= edits + 1)
    /\ [][/\ reviews' # reviews =>
                /\ pc = "review" /\ edits = Len(reviews)
                /\ reviews' = Append(reviews, Len(reviews) + 1) /\ edits' = edits
          /\ edits' # edits =>
                /\ pc = "editing" /\ Len(reviews) = edits + 1
                /\ edits' = edits + 1 /\ reviews' = reviews
          /\ draft' # draft =>
                /\ pc \in {"body_writing", "intro_conclusion", "review", "editing"}
                /\ pc' # pc]_vars

\* C14 witness: review 1, edit 1, review 2, edit 2, review 3 ran in this order and
\* the third edit pass is about to start
C14_Witness ==
    /\ pc = "editing" /\ cycle = 3
    /\ reviews = <<1, 2, 3>> /\ edits = 2
    /\ last_op = Op("review", "ok", 3)

-----------------------------------------------------------------------------
(* Source deduplication: src/src/agents/source_finder.py *)

MaxSources == 3        \* longest list handed to _deduplicate_sources

\* `[:50]`
TitleKeyLen == 50

\* str.lower on the letters of the model
LowerChar(c) ==
    CASE c = "A" -> "a" [] c = "T" -> "t" [] c = "U" -> "u" [] OTHER -> c

Lower(t) == [i \in 1..Len(t) |-> LowerChar(t[i])]

\* str.strip: leading and trailing whitespace removed
Strip(t) ==
    LET ns == {i \in 1..Len(t) : t[i] # " "}
    IN IF ns = {} THEN <<>>
       ELSE SubSeq(t, CHOOSE i \in ns : \A j \in ns : i <= j,
                      CHOOSE i \in ns : \A j \in ns : i >= j)

\* source.url.lower().strip()
UrlKey(source) == Strip(Lower(source.url))

\* source.title.lower().strip()[:50]
TitleKey(source) ==
    LET t == Strip(Lower(source.title))
    IN SubSeq(t, 1, IF Len(t) < TitleKeyLen THEN Len(t) ELSE TitleKeyLen)

\* a Source record; id stands for the record's uuid and is its place in the input
Source(id, url, title) == [id |-> id, url |-> url, title |-> title]

\* (variant: a record is kept when its URL is new, whatever its title)
UnseenUrl(url_key, seen_urls, title_key, seen_titles) == url_key \notin seen_urls

\* `url_key not in seen_urls and title_key not in seen_titles`
Unseen(url_key, seen_urls, title_key, seen_titles) ==
    url_key \notin seen_urls /\ title_key \notin seen_titles

\* the for loop of _deduplicate_sources
RECURSIVE DedupFrom(_, _, _, _, _)
DedupFrom(srcs, i, seen_urls, seen_titles, uniq) ==
    IF i > Len(srcs) THEN uniq
    ELSE LET url_key == UrlKey(srcs[i])
             title_key == TitleKey(srcs[i])
         IN IF Unseen(url_key, seen_urls, title_key, seen_titles)
            THEN DedupFrom(srcs, i + 1, seen_urls \cup {url_key},
                           seen_titles \cup {title_key}, Append(uniq, srcs[i]))
            ELSE DedupFrom(srcs, i + 1, seen_urls, seen_titles, uniq)

\* SourceFinderAgent._deduplicate_sources
DeduplicateSources(srcs) == DedupFrom(srcs, 1, {}, {}, <<>>)

\* URLs as the search backends return them: two spellings of one address and another
Urls == {<<"u">>, <<"U", " ">>, <<"v">>}

\* a title of TitleKeyLen + 1 characters ending with c
LongTitle(c) == [i \in 1..TitleKeyLen |-> "a"] \o <<c>>

\* titles: two spellings of one title, another short title, and two long titles that
\* differ only after their first TitleKeyLen characters
Titles == {<<"t">>, <<" ", "T">>, <<"s">>, LongTitle("a"), LongTitle("b")}

\* the lists of n records
SourceLists(n) ==
    {[i \in 1..n |-> Source(i, f[i][1], f[i][2])] : f \in [1..n -> Urls \X Titles]}

\* all_sources as _search_sources collected it
InitDedup ==
    /\ \E n \in 0..MaxSources : sources \in SourceLists(n)
    /\ unique = <<>>
    /\ draft = None /\ feedback = None
    /\ min_cycles = 2 /\ max_cycles = 5
    /\ pc = "dedupe" /\ cycle = 0 /\ current_stage = "init" /\ status = "draft"
    /\ error = None /\ last_error = None /\ loop_state = "none" /\ warned = FALSE
    /\ reviews = <<>> /\ edits = 0 /\ reviewed = None
    /\ last_op = Op("none", "ok", 0) /\ rewrites = <<>> /\ fixes_done = 0
    /\ version0 = 1 /\ fb_seq = 0 /\ nops = 0 /\ attempts = 0 /\ raised = NoExc
    /\ InitUnit

\* unique_sources = self._deduplicate_sources(all_sources)
Deduplicate ==
    /\ pc = "dedupe" /\ last_op.name = "none"
    /\ unique' = DeduplicateSources(sources)
    /\ last_op' = Op("deduplicate", "ok", 0)
    /\ UNCHANGED <<draft, feedback, rewrites, fixes_done, version0, fb_seq, nops,
                   attempts, raised, sources, pipeline_vars, unit_vars>>

NextDedup == Deduplicate

SpecDedup == InitDedup /\ [][NextDedup]_vars

\* C15: the deduplicated list is a sub-list of the input in input order; no two of
\* its records share a URL key or a title key; a record is dropped only when an
\* earlier kept record has its URL key or its title key; three records of which only
\* the first two share a URL, all titles differing, give the first and the third.
C15_DedupKeepsFirstOfEachKey ==
    last_op.name = "deduplicate" =>
        LET kept == {unique[k].id : k \in 1..Len(unique)}
        IN /\ \A k \in 1..Len(unique) :
                 unique[k].id \in 1..Len(sources) /\ unique[k] = sources[unique[k].id]
           /\ \A a, b \in 1..Len(unique) : a < b => unique[a].id < unique[b].id
           /\ \A a, b \in 1..Len(unique) :
                 a # b => /\ UrlKey(unique[a]) # UrlKey(unique[b])
                          /\ TitleKey(unique[a]) # TitleKey(unique[b])
           /\ \A i \in (1..Len(sources)) \ kept :
                 \E j \in kept :
                     /\ j < i
                     /\ \/ UrlKey(sources[j]) = UrlKey(sources[i])
                        \/ TitleKey(sources[j]) = TitleKey(sources[i])
           /\ (/\ Len(sources) = 3
               /\ sources[1].url = sources[2].url /\ sources[3].url # sources[1].url
               /\ UrlKey(sources[3]) # UrlKey(sources[1])
               /\ Cardinality({TitleKey(sources[i]) : i \in 1..3}) = 3)
              => unique = <<sources[1], sources[3]>>

\* C15 witness: of three records the second repeats the URL of the first under
\* another title; the first and the third are returned
C15_Witness ==
    /\ last_op.name = "deduplicate"
    /\ sources = <<Source(1, <<"u">>, <<"t">>), Source(2, <<"u">>, <<"s">>),
                   Source(3, <<"v">>, LongTitle("b"))>>
    /\ unique = <<sources[1], sources[3]>>

-----------------------------------------------------------------------------
(* Claims on failed runs *)

\* C16: when a stage of generate_paper raises, no later stage runs, the workflow
\* stage becomes FAILED, the session status failed, and the message of the exception
\* is stored in state.error and in session.last_error; the run never reaches
\* COMPLETED and never marks the session completed.
C16_RaisingStageFailsTheRun ==
    /\ [](raised # NoExc =>
             /\ pc \in AfterRun
             /\ current_stage = "failed" /\ status = "failed"
             /\ error = Some(raised.msg) /\ last_error = Some(raised.msg)
             /\ last_op.result = "raised")
    /\ [][/\ (raised' # raised) => (raised = NoExc /\ pc \notin AfterRun /\ pc' = "done")
          /\ (raised # NoExc) =>
                /\ UNCHANGED <<draft, feedback, cycle, current_stage, status, error,
                               last_error, loop_hist, last_op, rewrites, fixes_done,
                               fb_seq>>
                /\ pc' \in AfterRun]_vars

\* C16 witness: the edit pass of cycle 2 raised; the run ended failed with the
\* message kept, after two reviews and without a third
C16_Witness ==
    /\ raised = [type |-> "RuntimeError", msg |-> "m"]
    /\ last_op = Op("apply_all_fixes", "raised", 2) /\ max_cycles = 3
    /\ reviews = <<1, 2>> /\ edits = 2
    /\ current_stage = "failed" /\ status = "failed"
    /\ error = Some("m") /\ last_error = Some("m")

\* C17: after a run of the pipeline that failed, whatever the message of the
\* exception, _run_generation does not call export_paper.
C17_NoExportAfterFailedRun ==
    pc = "cli_export" => current_stage # "failed"

\* the default max_attempts of retry_async
max_attempts == 3

\* C18: a failing language-model call of a review or of an edit pass is retried up
\* to the bound of the backoff wrapper, and the run is marked failed only after all
\* of these attempts failed.
C18_FailedOnlyAfterAllAttempts ==
    (raised # NoExc /\ last_op.name \in {"review", "apply_all_fixes"}) =>
        attempts = max_attempts

-----------------------------------------------------------------------------
(* Claims on the section groups of apply_all_fixes *)

\* C19: apply_all_fixes skips a group whose section name is no SectionType (the
\* empty name and "cross-section" among them) and gets a failed edit for a group
\* whose section is empty in the draft, neither raising; every other group is
\* rewritten and its issues resolved, and the call returns success with the
\* version incremented (every rewrite call returning).
C19_SkippedGroupsDoNotAbort ==
    [][last_op'.name = "apply_all_fixes" =>
          LET issues == feedback.issues
              rewritable(i) == /\ issues[i].section \in SectionType
                               /\ draft.sections[issues[i].section] # <<>>
          IN /\ last_op'.result = "ok"
             /\ draft'.version = draft.version + 1
             /\ \A i \in 1..Len(issues) :
                   IF rewritable(i)
                   THEN /\ feedback'.issues[i].resolved
                        /\ \E k \in 1..Len(rewrites') :
                               rewrites'[k].section = issues[i].section
                   ELSE /\ feedback'.issues[i] = issues[i]
                        /\ \A k \in 1..Len(rewrites') :
                               rewrites'[k].section # issues[i].section
             /\ \A s \in SectionType : draft.sections[s] = <<>> => draft'.sections[s] = <<>>
      ]_vars

\* C19 witness: groups named "cross-section" and "" and a group of the empty
\* methodology section came before the introduction's group, which was rewritten
C19_Witness ==
    /\ last_op = Op("apply_all_fixes", "ok", 0)
    /\ Len(feedback.issues) = 4
    /\ [i \in 1..4 |-> feedback.issues[i].section] =
           <<"cross-section", "", "methodology", "introduction">>
    /\ draft.sections["methodology"] = <<>>
    /\ [i \in 1..4 |-> feedback.issues[i].resolved] = <<FALSE, FALSE, FALSE, TRUE>>
    /\ rewrites = <<Request("introduction", <<4>>)>>
    /\ draft.version = version0 + 1

\* C20: one apply_all_fixes call sends at most one rewrite request per section, and
\* only for sections that have an unresolved issue in the feedback; the content of
\* every section without an unresolved issue is as it was before the call.
C20_OneRewritePerSectionWithIssues ==
    [][last_op'.name = "apply_all_fixes" =>
          LET open(s) == \E i \in 1..Len(feedback.issues) :
                             /\ feedback.issues[i].section = s
                             /\ ~feedback.issues[i].resolved
          IN /\ \A a, b \in 1..Len(rewrites') :
                    a # b => rewrites'[a].section # rewrites'[b].section
             /\ \A k \in 1..Len(rewrites') : open(rewrites'[k].section)
             /\ \A s \in SectionType : ~open(s) => draft'.sections[s] = draft.sections[s]
      ]_vars

\* C20 witness: the introduction's issues were resolved before the call, the
\* methodology had an unresolved one; the call sent the one request for the
\* methodology and left the introduction as it was
C20_Witness ==
    /\ last_op.name = "apply_all_fixes" /\ last_op.result = "ok"
    /\ Len(rewrites) = 1 /\ rewrites[1].section = "methodology"
    /\ draft.sections["introduction"] # <<>>
    /\ \E i \in 1..Len(feedback.issues) :
          feedback.issues[i].section = "introduction" /\ feedback.issues[i].resolved

-----------------------------------------------------------------------------
(* Claims on what the reviewer does to the draft and makes of the responses *)

\* C21: a review that returns sets draft.review_cycle to its cycle number and leaves
\* every other field of the draft (section contents, word_count, version, status)
\* as it was.
C21_ReviewChangesOnlyReviewCycle ==
    [][(last_op'.name = "review" /\ last_op'.result = "ok" /\ fb_seq' # fb_seq) =>
          /\ draft'.review_cycle = last_op'.arg
          /\ draft'.sections = draft.sections
          /\ draft'.word_count = draft.word_count
          /\ draft'.version = draft.version
          /\ draft'.status = draft.status
          /\ DOMAIN draft' = DOMAIN draft
      ]_vars

\* C21 witness: a review of cycle 2 returned on a draft that holds text and was
\* edited once before; the draft carries the cycle number and its earlier version
C21_Witness ==
    /\ last_op = Op("review", "ok", 2)
    /\ draft.review_cycle = 2
    /\ draft.word_count >= 1
    /\ draft.version = version0 + 1

-----------------------------------------------------------------------------
(* The reviewer's parsers on every short response: src/src/agents/reviewer.py *)

MaxLines == 3          \* longest response of SpecParse, in lines

\* the lines of a response: marker lines of the section review, a line of plain
\* text, marker lines of the consistency check, and a line that holds the marker
\* INCONSISTENCY: behind leading text, so that it does not start with it
ResponseLines ==
    {Line("ISSUE:", "LOGIC_ERROR", <<>>), Line("SEVERITY:", "CRITICAL", <<>>),
     Line("DESCRIPTION:", "", <<>>), Line("", "", <<>>), Line("NO_ISSUES", "", <<>>),
     Line("INCONSISTENCY:", "", <<>>), Line("SECTIONS:", "", <<>>),
     Line("", "INCONSISTENCY:", <<>>), Line("CONSISTENT:", "", <<>>)}

ParseResponses == UNION {[1..n -> ResponseLines] : n \in 0..MaxLines}

\* the variables of the pipeline and of the agents at rest, pc at position p
IdleAt(p) ==
    /\ draft = None /\ feedback = None
    /\ min_cycles = 2 /\ max_cycles = 5
    /\ pc = p /\ cycle = 0 /\ current_stage = "init" /\ status = "draft"
    /\ error = None /\ last_error = None /\ loop_state = "none" /\ warned = FALSE
    /\ reviews = <<>> /\ edits = 0 /\ reviewed = None
    /\ last_op = Op("none", "ok", 0) /\ rewrites = <<>> /\ fixes_done = 0
    /\ version0 = 1 /\ fb_seq = 0 /\ nops = 0 /\ attempts = 0 /\ raised = NoExc
    /\ sources = <<>> /\ unique = <<>>

\* the variables IdleAt fixes, but last_op
idle_vars == <<draft, feedback, rewrites, fixes_done, version0, fb_seq, nops, attempts,
               raised, finder_vars, pipeline_vars>>

\* response = await self.generate(prompt, ...) has returned
InitParse ==
    /\ IdleAt("parse") /\ RetryIdle /\ FormatterIdle /\ LoaderIdle
    /\ response \in ParseResponses /\ parsed = <<>>

\* ReviewerAgent._review_section on the response
ParseSection ==
    /\ pc = "parse" /\ last_op.name = "none"
    /\ parsed' = ReviewSection("introduction", response)
    /\ last_op' = Op("review_section", "ok", 0)
    /\ UNCHANGED <<response, idle_vars, retry_vars, formatter_vars, loader_vars>>

\* ReviewerAgent._check_consistency on the response
ParseConsistency ==
    /\ pc = "parse" /\ last_op.name = "none"
    /\ parsed' = CheckConsistency(response, 1)
    /\ last_op' = Op("check_consistency", "ok", 0)
    /\ UNCHANGED <<response, idle_vars, retry_vars, formatter_vars, loader_vars>>

NextParse == ParseSection \/ ParseConsistency

SpecParse == InitParse /\ [][NextParse]_vars

\* C22: a section-review response without a line that starts with ISSUE: yields no
\* issue, whatever other lines (SEVERITY:, DESCRIPTION: and so on) it holds.
C22_NoIssueMarkerNoIssues ==
    (last_op.name = "review_section"
        /\ \A i \in 1..Len(response) : response[i].m # "ISSUE:") => parsed = <<>>

\* C23: the consistency check makes exactly one issue of every finding of the
\* response (a line that starts with INCONSISTENCY:), each of severity major, kind
\* inconsistency, section "cross-section" and unresolved; a response without a
\* finding yields no issue.
C23_OneMajorIssuePerFinding ==
    last_op.name = "check_consistency" =>
        /\ Len(parsed) = Cardinality({i \in 1..Len(response) :
                                         response[i].m = "INCONSISTENCY:"})
        /\ \A k \in 1..Len(parsed) :
              /\ parsed[k].severity = "major" /\ parsed[k].issue_type = "inconsistency"
              /\ parsed[k].section = "cross-section" /\ ~parsed[k].resolved

\* C23 witness: a response with two findings, the first with its SECTIONS: line,
\* gave two issues
C23_Witness ==
    /\ last_op.name = "check_consistency"
    /\ response = <<Line("INCONSISTENCY:", "", <<>>), Line("SECTIONS:", "", <<>>),
                    Line("INCONSISTENCY:", "", <<>>)>>
    /\ Len(parsed) = 2

-----------------------------------------------------------------------------
(* check_issues on stored feedback: src/src/agents/reviewer.py *)

MaxCheckTextLen == 2   \* longest section text of SpecCheck
MaxCheckIssues == 2    \* longest issue list of SpecCheck

\* section contents of two letters
CheckTexts == UNION {[1..n -> {"a", "b"}] : n \in 0..MaxCheckTextLen}

\* issues of a previous feedback: in a section of the draft or at the synthetic
\* cross-section location, with or without an excerpt, resolved by the editor or not
CheckIssues ==
    {[Issue("vague_claim", "minor", sec, x) EXCEPT !.resolved = r] :
        sec \in {"introduction", "cross-section"}, x \in {<<>>, <<"a">>, <<"a", "b">>},
        r \in BOOLEAN}

\* a draft and the feedback of an earlier review, as check_issues is handed them;
\* reviewed keeps them as they were handed over
InitCheck ==
    /\ InitUnit
    /\ \E t \in CheckTexts : draft = SetSection(NewDraft, "introduction", t)
    /\ \E q \in UNION {[1..n -> CheckIssues] : n \in 0..MaxCheckIssues} :
          feedback = [id |-> 1, cycle |-> 1, issues |-> Renumber(q), approved |-> FALSE]
    /\ reviewed = [draft |-> draft, feedback |-> feedback]
    /\ min_cycles = 2 /\ max_cycles = 5
    /\ pc = "check" /\ cycle = 0 /\ current_stage = "init" /\ status = "draft"
    /\ error = None /\ last_error = None /\ loop_state = "none" /\ warned = FALSE
    /\ reviews = <<>> /\ edits = 0
    /\ last_op = Op("none", "ok", 0) /\ rewrites = <<>> /\ fixes_done = 0
    /\ version0 = 1 /\ fb_seq = 1 /\ nops = 0 /\ attempts = 0 /\ raised = NoExc
    /\ sources = <<>> /\ unique = <<>>

\* ReviewerAgent.execute(action="check_issues", draft, previous_feedback)
CheckIssuesCall ==
    /\ pc = "check" /\ last_op.name = "none"
    /\ feedback' = CheckResolvedIssues(draft, feedback)
    /\ last_op' = Op("check_issues", "ok", 0)
    /\ UNCHANGED <<draft, rewrites, fixes_done, version0, fb_seq, nops, attempts, raised,
                   finder_vars, pipeline_vars, unit_vars>>

NextCheck == CheckIssuesCall

SpecCheck == InitCheck /\ [][NextCheck]_vars

\* whether x occurs verbatim in t
Occurs(t, x) == \E a \in 1..(Len(t) + 1) : a + Len(x) - 1 <= Len(t) /\ SubSeq(t, a, a + Len(x) - 1) = x

\* C24: check_issues sets an issue's resolved flag exactly when the issue has a
\* non-empty excerpt that does not occur verbatim in the current content of its
\* section (no content for a name that is no section), keeps every other flag and
\* every other field of the issues, and does not change the draft.
C24_ResolvedWhenExcerptGone ==
    last_op.name = "check_issues" =>
        /\ draft = reviewed.draft
        /\ Len(feedback.issues) = Len(reviewed.feedback.issues)
        /\ \A i \in 1..Len(feedback.issues) :
              LET before == reviewed.feedback.issues[i]
                  content == IF before.section \in SectionType
                             THEN draft.sections[before.section] ELSE <<>>
                  gone == before.text_excerpt # <<>> /\ ~Occurs(content, before.text_excerpt)
              IN /\ feedback.issues[i] = [before EXCEPT !.resolved = gone \/ before.resolved]
                 /\ (feedback.issues[i].resolved # before.resolved) <=> (gone /\ ~before.resolved)

\* C24 witness: the excerpt "a" still stands in the introduction "ba", so the first
\* issue stays unresolved; the second issue names no section and its excerpt is
\* found nowhere, so it was set resolved
C24_Witness ==
    /\ last_op.name = "check_issues"
    /\ draft.sections["introduction"] = <<"b", "a">>
    /\ Len(feedback.issues) = 2
    /\ feedback.issues[1].section = "introduction"
    /\ feedback.issues[1].text_excerpt = <<"a">> /\ ~feedback.issues[1].resolved
    /\ feedback.issues[2].section = "cross-section"
    /\ feedback.issues[2].text_excerpt = <<"a">>
    /\ ~reviewed.feedback.issues[2].resolved /\ feedback.issues[2].resolved

-----------------------------------------------------------------------------
(* retry_async: src/src/utils/retry.py *)

MaxRetryAttempts == 3  \* largest max_attempts handed to retry_async
MaxWaitArg == 3        \* largest min_wait and max_wait handed to retry_async

\* (variant: the wait doubles without a cap)
BackoffUncapped(wait_time, max_wait) == wait_time * 2

\* `wait_time = min(wait_time * 2, max_wait)`
Backoff(wait_time, max_wait) ==
    IF wait_time * 2 < max_wait THEN wait_time * 2 ELSE max_wait

\* the loop `for attempt in range(max_attempts)` from its turn `attempt` on (turns
\* are counted from 1 here), and the statements after it; the k-th invocation
\* returns the value k or raises the exception k; `exc` is the exception that
\* leaves retry_async
RECURSIVE RetryFrom(_, _, _)
RetryFrom(r, st, attempt) ==
    IF attempt > r.max_attempts
    THEN IF st.last_exception # 0
         THEN [st EXCEPT !.ended = "raised", !.exc = st.last_exception]
         ELSE [st EXCEPT !.ended = "raised_runtime_error"]
    ELSE LET called == [st EXCEPT !.calls = @ + 1]
         IN CASE r.outs[attempt] = "returns" ->
                    [called EXCEPT !.ended = "returned", !.value = attempt]
              [] r.outs[attempt] = "raises_other" ->
                    [called EXCEPT !.ended = "raised", !.exc = attempt]
              [] r.outs[attempt] = "raises" ->
                    IF attempt < r.max_attempts
                    THEN RetryFrom(r, [called EXCEPT !.last_exception = attempt,
                                                     !.sleeps = Append(@, st.wait_time),
                                                     !.wait_time = Backoff(@, r.max_wait)],
                                   attempt + 1)
                    ELSE RetryFrom(r, [called EXCEPT !.last_exception = attempt],
                                   attempt + 1)

\* retry_async(func, max_attempts=..., min_wait=..., max_wait=...): the state before
\* the loop, then the loop
RetryAsyncResult(r) ==
    RetryFrom(r, [calls |-> 0, sleeps |-> <<>>, wait_time |-> r.min_wait,
                  last_exception |-> 0, ended |-> "no", value |-> 0, exc |-> 0], 1)

\* the calls of retry_async: the parameters, and what each invocation of func would
\* do: it returns, raises an exception of one of the types in `exceptions`, or raises
\* an exception of another type
RetryCalls ==
    UNION {[max_attempts : {n}, min_wait : 1..MaxWaitArg, max_wait : 1..MaxWaitArg,
            outs : [1..n -> {"returns", "raises", "raises_other"}]] : n \in 0..MaxRetryAttempts}

InitRetry ==
    /\ IdleAt("retry") /\ ParserIdle /\ FormatterIdle /\ LoaderIdle
    /\ retry \in RetryCalls /\ retried = None

\* await retry_async(func, ...)
RetryAsync ==
    /\ pc = "retry" /\ last_op.name = "none"
    /\ retried' = RetryAsyncResult(retry)
    /\ last_op' = Op("retry_async", IF retried'.ended = "returned" THEN "ok" ELSE "raised", 0)
    /\ UNCHANGED <<retry, parser_vars, idle_vars, formatter_vars, loader_vars>>

SpecRetry == InitRetry /\ [][RetryAsync]_vars

\* C25: retry_async invokes func at most max_attempts times; it returns the result
\* of the first invocation that succeeds and invokes nothing after it; after
\* max_attempts failures it raises the exception of the last one; it sleeps once
\* between two invocations and never after the last, the first wait being min_wait
\* and each further wait the smaller of twice the wait before and max_wait.
C25_RetryBoundedWithBackoff ==
    last_op.name = "retry_async" =>
        \* k: the first invocation that does not raise a retried exception, or
        \* max_attempts + 1 when all of them do
        LET n == retry.max_attempts
            D == {i \in 1..n : retry.outs[i] # "raises"}
            k == IF D = {} THEN n + 1 ELSE CHOOSE i \in D : \A j \in D : i <= j
        IN /\ retried.calls <= n
           /\ retried.calls = IF k <= n THEN k ELSE n
           /\ (k <= n /\ retry.outs[k] = "returns") =>
                  retried.ended = "returned" /\ retried.value = k
           /\ (k <= n /\ retry.outs[k] = "raises_other") =>
                  retried.ended = "raised" /\ retried.exc = k
           /\ (k > n /\ n > 0) => retried.ended = "raised" /\ retried.exc = n
           /\ retried.ended = "returned" => (k <= n /\ retry.outs[k] = "returns")
           /\ Len(retried.sleeps) = IF retried.calls = 0 THEN 0 ELSE retried.calls - 1
           /\ \A j \in 1..Len(retried.sleeps) :
                 retried.sleeps[j] =
                     IF j = 1 THEN retry.min_wait
                     ELSE IF 2 * retried.sleeps[j - 1] < retry.max_wait
                          THEN 2 * retried.sleeps[j - 1] ELSE retry.max_wait

\* C25 witness: three attempts allowed, all three failed; the waits were 1 and 2
\* and the third exception was raised without a wait after it
C25_Witness ==
    /\ last_op.name = "retry_async"
    /\ retry.max_attempts = 3 /\ retry.min_wait = 1 /\ retry.max_wait = 3
    /\ retry.outs = <<"raises", "raises", "raises">>
    /\ retried.calls = 3 /\ retried.sleeps = <<1, 2>>
    /\ retried.ended = "raised" /\ retried.exc = 3

-----------------------------------------------------------------------------
(* IEEE citation numbers: src/src/citations/ieee.py *)

MaxFormatters == 2     \* IEEEFormatter instances, one per document
MaxIeeeSources == 2    \* sources cited

Formatters == 1..MaxFormatters

IeeeSources == 1..MaxIeeeSources

\* the class as its body leaves it, and no instance yet. class_map is the dict bound
\* to the class attribute _citation_map (0: the key is absent). An instance reads
\* _citation_counter and _citation_map from the class until it binds attributes of
\* its own: counter[f] is the value `self._citation_counter` reads (the class
\* attribute stays 0), has_own[f] tells whether reset_counter bound a dict of its
\* own to the instance, own_map[f] is that dict. numbers[f][s] is history: the
\* numbers f gave to source s in its current document.
IeeeClass ==
    [class_map |-> [s \in IeeeSources |-> 0],
     created   |-> [f \in Formatters |-> FALSE],
     counter   |-> [f \in Formatters |-> 0],
     has_own   |-> [f \in Formatters |-> FALSE],
     own_map   |-> [f \in Formatters |-> [s \in IeeeSources |-> 0]],
     numbers   |-> [f \in Formatters |-> [s \in IeeeSources |-> {}]]]

\* `self._citation_map`
CitationMap(i, f) == IF i.has_own[f] THEN i.own_map[f] ELSE i.class_map

\* the numbering step of format_in_text and of format_bibliography:
\* `if source_key not in self._citation_map: self._citation_counter += 1;
\* self._citation_map[source_key] = self._citation_counter`, then the number of the
\* source is put into the text
Numbered(i, f, s) ==
    LET n == i.counter[f] + 1
        j == IF CitationMap(i, f)[s] # 0 THEN i
             ELSE IF i.has_own[f]
                  THEN [i EXCEPT !.counter[f] = n, !.own_map[f][s] = n]
                  ELSE [i EXCEPT !.counter[f] = n, !.class_map[s] = n]
    IN [j EXCEPT !.numbers[f][s] = @ \cup {CitationMap(j, f)[s]}]

InitIeee ==
    /\ IdleAt("ieee") /\ ParserIdle /\ RetryIdle /\ LoaderIdle
    /\ ieee = IeeeClass

\* get_formatter(CitationStyle.IEEE): a new instance for a new document
GetFormatter(f) ==
    /\ pc = "ieee" /\ ~ieee.created[f]
    /\ ieee' = [ieee EXCEPT !.created[f] = TRUE]
    /\ last_op' = Op("get_formatter", "ok", f)
    /\ UNCHANGED <<idle_vars, parser_vars, retry_vars, loader_vars>>

\* IEEEFormatter.format_in_text(source)
FormatInText(f, s) ==
    /\ pc = "ieee" /\ ieee.created[f]
    /\ ieee' = Numbered(ieee, f, s)
    /\ last_op' = Op("format_in_text", "ok", f)
    /\ UNCHANGED <<idle_vars, parser_vars, retry_vars, loader_vars>>

\* IEEEFormatter.format_bibliography(source)
FormatBibliography(f, s) ==
    /\ pc = "ieee" /\ ieee.created[f]
    /\ ieee' = Numbered(ieee, f, s)
    /\ last_op' = Op("format_bibliography", "ok", f)
    /\ UNCHANGED <<idle_vars, parser_vars, retry_vars, loader_vars>>

\* IEEEFormatter.reset_counter(): the instance starts a new document
ResetCounter(f) ==
    /\ pc = "ieee" /\ ieee.created[f]
    /\ ieee' = [ieee EXCEPT !.counter[f] = 0, !.has_own[f] = TRUE,
                            !.own_map[f] = [s \in IeeeSources |-> 0],
                            !.numbers[f] = [s \in IeeeSources |-> {}]]
    /\ last_op' = Op("reset_counter", "ok", f)
    /\ UNCHANGED <<idle_vars, parser_vars, retry_vars, loader_vars>>

SpecIeee ==
    InitIeee /\ [][\E f \in Formatters :
                      \/ GetFormatter(f)
                      \/ ResetCounter(f)
                      \/ \E s \in IeeeSources : FormatInText(f, s)
                      \/ \E s \in IeeeSources : FormatBibliography(f, s)]_vars

\* C26: within the document of one formatter, two distinct sources never carry the
\* same IEEE number and a source never carries two numbers, whatever other
\* IEEEFormatter instances format in between.
C26_DistinctNumbersPerDocument ==
    pc = "ieee" =>
        \A f \in Formatters : \A s \in IeeeSources :
            /\ Cardinality(ieee.numbers[f][s]) <= 1
            /\ \A t \in IeeeSources \ {s} :
                  ieee.numbers[f][s] \cap ieee.numbers[f][t] = {}

-----------------------------------------------------------------------------
(* Claim on the warning after the review-edit loop *)

\* C27: once the loop is left and the statement after it has run, the exhaustion
\* warning was emitted exactly when the loop was not left by the break of an
\* approved review with cycle >= min_cycles, for every configured min_cycles and
\* max_cycles.
C27_WarnedIffNotConverged ==
    (loop_state # "none" /\ pc # "loop_exit") => (warned <=> loop_state = "exhausted")

-----------------------------------------------------------------------------
(* Claim on the exceptions of the rewrite call *)

\* C29: when a rewrite call of the loop's edit pass raises, whatever the type of the
\* exception, the pass ends with that exception and the run fails. A rewrite call
\* raised exactly when its request was sent and an issue it named is still
\* unresolved after the pass.
C29_RewriteFailureFailsTheRun ==
    [][(/\ pc = "editing"
        /\ \E k \in 1..Len(rewrites') : \E j \in 1..Len(rewrites'[k].ids) :
               ~feedback'.issues[rewrites'[k].ids[j]].resolved)
       => (pc' = "done" /\ last_op'.result = "raised" /\ status' = "failed")]_vars

-----------------------------------------------------------------------------
(* Loading stored records: src/src/models/session.py, source.py, paper.py *)

MaxAbsent == 2         \* fields a stored record can lack

\* The fields of ResearchSession.to_dict: for each, <<the default of the dataclass
\* field, a value a stored record holds>>. None, 0.0 and the enum members are
\* written as strings.
SessionFields ==
    [id |-> <<"uuid4()", "id1">>, topic |-> <<"", "t">>, title |-> <<"", "T">>,
     citation_style |-> <<"APA", "IEEE">>, target_word_count |-> <<18000, 9000>>,
     target_journal |-> <<"None", "j">>, status |-> <<"draft", "completed">>,
     created_at |-> <<"now()", "d1">>, updated_at |-> <<"now()", "d2">>,
     default_provider |-> <<"gemini", "openai">>, current_stage |-> <<"init", "export">>,
     progress_percentage |-> <<"0.0", "100.0">>, last_error |-> <<"None", "e">>,
     retry_count |-> <<0, 1>>]

\* The fields of Source.to_dict, in the same way
SourceFields ==
    [id |-> <<"uuid4()", "id1">>, session_id |-> <<"None", "id2">>, title |-> <<"", "T">>,
     authors |-> <<<<>>, <<"A">>>>, year |-> <<"None", "2020">>, url |-> <<"", "u">>,
     doi |-> <<"None", "d">>, abstract |-> <<"", "a">>, full_text |-> <<"None", "f">>,
     summary |-> <<"", "s">>, source_type |-> <<"web", "arxiv">>,
     relevance_score |-> <<"0.0", "0.5">>, credibility_rating |-> <<"medium", "high">>,
     is_accessible |-> <<TRUE, FALSE>>, retrieved_at |-> <<"now()", "d1">>,
     journal_name |-> <<"None", "J">>, volume |-> <<"None", "1">>,
     issue |-> <<"None", "2">>, pages |-> <<"None", "3">>, publisher |-> <<"None", "P">>]

\* The fields of PaperDraft.to_dict, in the same way; the sections and the word
\* count of a stored record are chosen in StoredRecords
DraftFields ==
    [id |-> <<"uuid4()", "id1">>, session_id |-> <<"None", "id2">>,
     version |-> <<NewDraft.version, 2>>,
     sections |-> <<NewDraft.sections, NewDraft.sections>>,
     word_count |-> <<NewDraft.word_count, 0>>,
     status |-> <<NewDraft.status, "in_review">>,
     review_cycle |-> <<NewDraft.review_cycle, 1>>,
     created_at |-> <<"now()", "d1">>, updated_at |-> <<"now()", "d2">>]

\* cls(field=data["field"], ..., field=data.get("field", default), ...): a key read by
\* subscript (the keys of `required`) raises KeyError when the record lacks it, a key
\* read by get takes its default then. data[f] is None for a key the record lacks.
FromDict(required, fields, data) ==
    IF \E f \in required : data[f] = None
    THEN [raised |-> "KeyError", obj |-> None]
    ELSE [raised |-> "none",
          obj |-> [f \in DOMAIN fields |->
                      IF data[f] = None THEN fields[f][1] ELSE data[f].value]]

\* the stored records: what to_dict wrote, with up to MaxAbsent fields lacking. A
\* draft record holds a text for the introduction and any word count.
StoredRecords ==
    LET Lacking(fields) == {A \in SUBSET DOMAIN fields : Cardinality(A) <= MaxAbsent}
        Data(fields, A) ==
            [f \in DOMAIN fields |-> IF f \in A THEN None ELSE [value |-> fields[f][2]]]
    IN {[kind |-> "session", data |-> Data(SessionFields, A)] : A \in Lacking(SessionFields)}
       \cup {[kind |-> "source", data |-> Data(SourceFields, A)] : A \in Lacking(SourceFields)}
       \cup {[kind |-> "draft",
              data |-> Data([DraftFields EXCEPT !.sections[2] = [@ EXCEPT !["introduction"] = t],
                                               !.word_count[2] = n], A)] :
                 A \in Lacking(DraftFields), t \in {<<>>, <<"a">>, <<"a", " ", "a">>},
                 n \in 0..2}

InitLoad ==
    /\ IdleAt("load") /\ ParserIdle /\ RetryIdle /\ FormatterIdle
    /\ record \in StoredRecords /\ loaded = None

\* ResearchSession.from_dict(data)
LoadSession ==
    /\ pc = "load" /\ loaded = None /\ record.kind = "session"
    /\ loaded' = FromDict({"id", "topic", "title", "citation_style", "target_word_count",
                           "status", "created_at", "updated_at", "default_provider"},
                          SessionFields, record.data)
    /\ last_op' = Op("from_dict", IF loaded'.raised = "none" THEN "ok" ELSE "raised", 0)
    /\ UNCHANGED <<record, idle_vars, parser_vars, retry_vars, formatter_vars>>

\* Source.from_dict(data)
LoadSource ==
    /\ pc = "load" /\ loaded = None /\ record.kind = "source"
    /\ loaded' = FromDict({"id", "title"}, SourceFields, record.data)
    /\ last_op' = Op("from_dict", IF loaded'.raised = "none" THEN "ok" ELSE "raised", 0)
    /\ UNCHANGED <<record, idle_vars, parser_vars, retry_vars, formatter_vars>>

\* PaperDraft.from_dict(data): the draft it returns is the draft worked on from then on
LoadDraft ==
    /\ pc = "load" /\ loaded = None /\ record.kind = "draft"
    /\ loaded' = FromDict({"id"}, DraftFields, record.data)
    /\ draft' = IF loaded'.raised # "none" THEN draft
                ELSE [sections |-> loaded'.obj.sections, version |-> loaded'.obj.version,
                      word_count |-> loaded'.obj.word_count,
                      review_cycle |-> loaded'.obj.review_cycle,
                      status |-> loaded'.obj.status]
    /\ last_op' = Op("from_dict", IF loaded'.raised = "none" THEN "ok" ELSE "raised", 0)
    /\ UNCHANGED <<record, feedback, rewrites, fixes_done, version0, fb_seq, nops, attempts,
                   raised, finder_vars, pipeline_vars, parser_vars, retry_vars,
                   formatter_vars>>

SpecLoad ==
    InitLoad /\ [][LoadSession \/ LoadSource \/ LoadDraft \/ WordsSetSection]_vars

\* C28: loading a record that lacks fields raises nothing and gives every lacking
\* field the default of its dataclass field.
C28_AbsentFieldsTakeDefaults ==
    (pc = "load" /\ loaded # None) =>
        /\ loaded.raised = "none"
        /\ \A f \in DOMAIN record.data :
              record.data[f] = None =>
                  loaded.obj[f] = (CASE record.kind = "session" -> SessionFields[f][1]
                                     [] record.kind = "source" -> SourceFields[f][1]
                                     [] record.kind = "draft" -> DraftFields[f][1])

\* C30: a draft loaded from a stored record, before and after any set_section call,
\* has a word_count equal to the number of whitespace-separated words of its
\* sections' contents.
C30_LoadedWordCountIsSum ==
    (pc = "load" /\ draft # None) =>
        draft.word_count =
            Cardinality(UNION {{<<s, i>> : i \in WordStarts(draft.sections[s])} :
                                  s \in SectionType})

====
